---- MODULE Spec2Model ----
(***************************************************************************)
(* Orchestration graph of the itinerary planner: the session state, the    *)
(* router / handler / reasoning nodes, the conditional edges, the          *)
(* follow-up suggestion tokens and their resolution.                       *)
(*                                                                         *)
(* One API call (process_query or handle_suggestion_selection) is active   *)
(* at a time; inside a call the graph run advances one node per step.      *)
(* The classifier (LLM) is an input: every answer it can give, and its     *)
(* failure, is chosen nondeterministically at the node that consults it.   *)
(***************************************************************************)
EXTENDS Integers, Sequences, FiniteSets, TLC

VARIABLES
    sessions,   \* ItineraryPlannerSystem.sessions: thread id -> stored GraphState
    state,      \* the GraphState the active graph run works on
    pc,         \* position of the active call: "idle", a node name, "end", "raised"
    call,       \* the active (or last) API call and its arguments
    trace,      \* node executions of the current graph run, in order
    offered,    \* what the last generate_follow_up_suggestions call returned
    result,     \* what the last API call returned to its caller
    env         \* the inputs this session's user, classifier and handlers draw from

vars == <<sessions, state, pc, call, trace, offered, result, env>>

----------------------------------------------------------------------------
(* Bounds of the model *)

\* in a dialogue, a new API call is accepted while the stored history is no longer
MaxHistory == 9
\* length of the list of actions the classifier proposes as follow-ups
MaxSuggest == 2
\* number of candidate destinations the destination planner returns
MaxRecs == 2
\* number of stored candidates a follow-up is generated from, function by function
MaxCandidates == 6

(* Program constants *)

MAX_REASONING_ITERATIONS == 2
RECURSION_LIMIT == 50
DEFAULT_RECURSION_LIMIT == 25
MAX_DESTINATION_TOKENS == 5
REFINE_TOKEN_NUMBER == 99

----------------------------------------------------------------------------
(* Values *)

Threads == {"default", "other"}

\* Python's None where the code stores or returns it
PyNone == "<None>"
\* the classifier call raising (timeout, transport error, unparsable content)
LLMFailure == "<LLM failure>"

valid_agents ==
    {"DESTINATION_PLANNER", "PLANNER", "FLIGHT", "HOTEL", "ACTIVITY",
     "ITINERARY", "REASONING", "END"}

\* str.upper() on the strings the model uses
Upper(s) ==
    CASE s = "end" -> "END"
      [] s = "hotel" -> "HOTEL"
      [] s = "bogus" -> "BOGUS"
      [] OTHER -> s

\* user queries: one naming a destination, one with a destination-uncertainty phrase
PlanQuery == "plan a trip to Paris"
UncertainQuery == "help me choose a destination"
Queries == {PlanQuery, UncertainQuery}

\* variant: no phrase is recognised
HasNoPhrase(content) == FALSE

\* the phrase test of router_node on a message content
HasUncertaintyPhrase(content) == content[2] = UncertainQuery

\* candidate destinations; "San Diego" is contained in "San Diego Bay"
Destinations == {"San Diego Bay", "San Diego"}

\* lower-cased containment  a.lower() in b.lower()  on the destination names
NameContainedIn(a, b) ==
    \/ a = b
    \/ a = ""
    \/ a = "San Diego" /\ b = "San Diego Bay"

RECURSIVE SeqsUpTo(_, _)
SeqsUpTo(S, n) ==
    IF n = 0 THEN {<<>>}
    ELSE LET shorter == SeqsUpTo(S, n - 1)
         IN shorter \cup {Append(s, x) : s \in {t \in shorter : Len(t) = n - 1}, x \in S}

RECURSIVE InjectiveSeqsUpTo(_, _)
InjectiveSeqsUpTo(S, n) ==
    {s \in SeqsUpTo(S, n) : \A i, j \in 1..Len(s) : i # j => s[i] # s[j]}

----------------------------------------------------------------------------
(* Messages *)

HumanMessage(kind, text) ==
    [type |-> "human", content |-> <<kind, text>>,
     has_suggestions |-> FALSE, suggestions |-> <<>>]

AIMessage(kind, text) ==
    [type |-> "ai", content |-> <<kind, text>>,
     has_suggestions |-> FALSE, suggestions |-> <<>>]

\* an AIMessage whose additional_kwargs carries the key "suggestions"
AIMessageWithSuggestions(kind, text, batch) ==
    [type |-> "ai", content |-> <<kind, text>>,
     has_suggestions |-> TRUE, suggestions |-> batch]

----------------------------------------------------------------------------
(* GraphState *)

DefaultMetadata ==
    [reasoning_iterations |-> 0,
     reasoning_forced_end |-> FALSE,
     preplanner_phase     |-> FALSE,
     destination_selected |-> FALSE,
     plan_created         |-> FALSE]

GraphState(messages, plan, current_itinerary, user_preferences, next_agent, tool_results, metadata) ==
    [messages          |-> messages,
     plan              |-> plan,
     current_itinerary |-> current_itinerary,
     user_preferences  |-> user_preferences,
     next_agent        |-> next_agent,
     tool_results      |-> tool_results,
     metadata          |-> metadata]

NoToolResults == [k \in {} |-> <<>>]

create_initial_state(query) ==
    GraphState(<<HumanMessage("query", query)>>, PyNone, PyNone,
               [destination |-> ""], "", NoToolResults, DefaultMetadata)

\* variant: the entries of tool_results accumulate, a value written under a key
\* that is already there is appended to the value stored
Merge_accumulating(s, delta) ==
    [k \in DOMAIN s |->
        IF k \notin DOMAIN delta THEN s[k]
        ELSE IF k # "tool_results" THEN delta[k]
        ELSE [key \in DOMAIN s[k] \cup DOMAIN delta[k] |->
                IF key \in DOMAIN s[k] /\ key \in DOMAIN delta[k]
                THEN s[k][key] \o delta[k][key]
                ELSE IF key \in DOMAIN delta[k] THEN delta[k][key] ELSE s[k][key]]]

\* the graph runner's merge: a key of the delta replaces the state's value
Merge(s, delta) ==
    [k \in DOMAIN s |-> IF k \in DOMAIN delta THEN delta[k] ELSE s[k]]

\* variant: a dict holding the new key alone, without the spread
Without(d, key, value) == [k \in {key} |-> value]

\* dict spread  {**d, key: value}
With(d, key, value) ==
    [k \in DOMAIN d \cup {key} |-> IF k = key THEN value ELSE d[k]]

----------------------------------------------------------------------------
(* Nodes: each maps the state and the outcome of its external call to a delta *)

Last(seq) == seq[Len(seq)]

\* variant: the classifier's answer is passed on without validation
router_node_unvalidated(s, answer) ==
    IF Len(s.messages) = 0 THEN [next_agent |-> "END"]
    ELSE
    LET last_message == Last(s.messages)
        destination == s.user_preferences.destination
        needs_destination_help ==
            \/ destination = "" /\ HasUncertaintyPhrase(last_message.content)
            \/ s.metadata.preplanner_phase
    IN  IF s.metadata.destination_selected THEN
            [next_agent |-> "PLANNER", messages |-> s.messages]
        ELSE IF needs_destination_help THEN
            [next_agent |-> "DESTINATION_PLANNER",
             messages |-> Append(s.messages, AIMessage("router", "announce"))]
        ELSE IF answer = LLMFailure THEN
            [next_agent |-> "END",
             messages |-> Append(s.messages, AIMessage("router", "error"))]
        ELSE
            [messages |-> Append(s.messages, AIMessage("routing", Upper(answer))),
             next_agent |-> Upper(answer)]

\* variant: destination help is decided from the phrase alone
router_node_phrase_only(s, answer) ==
    IF Len(s.messages) = 0 THEN [next_agent |-> "END"]
    ELSE
    LET last_message == Last(s.messages)
        destination == s.user_preferences.destination
        needs_destination_help ==
            destination = "" /\ HasUncertaintyPhrase(last_message.content)
    IN  IF s.metadata.destination_selected THEN
            [next_agent |-> "PLANNER", messages |-> s.messages]
        ELSE IF needs_destination_help THEN
            [next_agent |-> "DESTINATION_PLANNER",
             messages |-> Append(s.messages, AIMessage("router", "announce"))]
        ELSE IF answer = LLMFailure THEN
            [next_agent |-> "END",
             messages |-> Append(s.messages, AIMessage("router", "error"))]
        ELSE
            LET decision == IF Upper(answer) \in valid_agents
                            THEN Upper(answer) ELSE "PLANNER"
            IN  [messages |-> Append(s.messages, AIMessage("routing", decision)),
                 next_agent |-> decision]

router_node(s, answer) ==
    IF Len(s.messages) = 0 THEN [next_agent |-> "END"]
    ELSE
    LET last_message == Last(s.messages)
        destination == s.user_preferences.destination
        needs_destination_help ==
            \/ destination = "" /\ HasUncertaintyPhrase(last_message.content)
            \/ s.metadata.preplanner_phase
    IN  IF s.metadata.destination_selected THEN
            [next_agent |-> "PLANNER", messages |-> s.messages]
        ELSE IF needs_destination_help THEN
            [next_agent |-> "DESTINATION_PLANNER",
             messages |-> Append(s.messages, AIMessage("router", "announce"))]
        ELSE IF answer = LLMFailure THEN
            [next_agent |-> "END",
             messages |-> Append(s.messages, AIMessage("router", "error"))]
        ELSE
            LET decision == IF Upper(answer) \in valid_agents
                            THEN Upper(answer) ELSE "PLANNER"
            IN  [messages |-> Append(s.messages, AIMessage("routing", decision)),
                 next_agent |-> decision]

\* whether router_node reaches llm.invoke in this state
router_consults(s) ==
    /\ Len(s.messages) > 0
    /\ ~s.metadata.destination_selected
    /\ ~(\/ s.user_preferences.destination = ""
            /\ HasUncertaintyPhrase(Last(s.messages).content)
         \/ s.metadata.preplanner_phase)

\* outcome: whether recommendation generation raised, and the ranked list it returned
preplanner_agent_node(s, outcome) ==
    IF outcome.raised THEN
        [messages |-> Append(s.messages, AIMessage("destination_planner", "error"))]
    ELSE
        [messages |-> Append(s.messages, AIMessage("destination_planner", "recommendations")),
         tool_results |-> With(s.tool_results, "destination_recommendations",
                               outcome.recommendations),
         metadata |-> [s.metadata EXCEPT !.preplanner_phase = TRUE]]

\* variant: the metadata of the delta is built afresh, without the spread
planner_node_fresh_metadata(s, answer) ==
    IF answer = LLMFailure THEN
        [messages |-> Append(s.messages, AIMessage("planner", "fallback")),
         plan |-> "steps"]
    ELSE
        [messages |-> Append(s.messages, AIMessage("planner", "plan")),
         plan |-> answer,
         metadata |-> [DefaultMetadata EXCEPT !.plan_created = TRUE]]

\* variant: the delta carries the node's reply alone, not the history before it
planner_node_reply_only(s, answer) ==
    IF answer = LLMFailure THEN
        [messages |-> <<AIMessage("planner", "fallback")>>,
         plan |-> "steps"]
    ELSE
        [messages |-> <<AIMessage("planner", "plan")>>,
         plan |-> answer,
         metadata |-> [s.metadata EXCEPT !.plan_created = TRUE]]

planner_node(s, answer) ==
    IF answer = LLMFailure THEN
        [messages |-> Append(s.messages, AIMessage("planner", "fallback")),
         plan |-> "steps"]
    ELSE
        [messages |-> Append(s.messages, AIMessage("planner", "plan")),
         plan |-> answer,
         metadata |-> [s.metadata EXCEPT !.plan_created = TRUE]]

planner_execution_node(s) ==
    [messages |-> Append(s.messages, AIMessage("planner_execution", "done")),
     plan |-> "executed",
     tool_results |-> With(s.tool_results, "s1", <<"preferences">>)]

flight_agent_node(s, outcome) ==
    IF outcome = "ok" THEN
        [messages |-> Append(s.messages, AIMessage("flight", "results")),
         tool_results |-> With(s.tool_results, "flight_search", <<"flights">>)]
    ELSE [messages |-> Append(s.messages, AIMessage("flight", "error"))]

hotel_agent_node(s, outcome) ==
    IF outcome = "ok" THEN
        [messages |-> Append(s.messages, AIMessage("hotel", "results")),
         tool_results |-> With(s.tool_results, "hotel_search", <<"hotels">>)]
    ELSE [messages |-> Append(s.messages, AIMessage("hotel", "error"))]

activity_agent_node(s, outcome) ==
    IF outcome = "ok" THEN
        [messages |-> Append(s.messages, AIMessage("activity", "results")),
         tool_results |-> With(s.tool_results, "activity_search", <<"activities">>)]
    ELSE [messages |-> Append(s.messages, AIMessage("activity", "error"))]

itinerary_agent_node(s, outcome) ==
    IF outcome = "ok" THEN
        [messages |-> Append(s.messages, AIMessage("itinerary", "composed")),
         current_itinerary |-> "itinerary",
         tool_results |-> With(s.tool_results, "itinerary", <<"itinerary">>)]
    ELSE [messages |-> Append(s.messages, AIMessage("itinerary", "error"))]

\* a classifier verdict that names a next action other than END
NeedsMoreWork(next_action) ==
    next_action \notin {LLMFailure, PyNone} /\ Upper(next_action) \notin {"END", ""}

\* variant: the forced-end test passes one iteration late
reasoning_forced_after_limit(s) ==
    s.metadata.reasoning_iterations > MAX_REASONING_ITERATIONS

\* the forced-end test made at the top of reasoning_node
reasoning_forced(s) ==
    s.metadata.reasoning_iterations >= MAX_REASONING_ITERATIONS

\* variant: the classifier is consulted before the forced-end test is made
reasoning_node_unguarded(s, next_action) ==
    IF next_action = LLMFailure THEN
        [messages |-> Append(s.messages, AIMessage("reasoning", "error")),
         next_agent |-> "END"]
    ELSE IF reasoning_forced(s) /\ ~NeedsMoreWork(next_action) THEN
        [messages |-> Append(s.messages, AIMessage("reasoning", "forced")),
         next_agent |-> "END",
         metadata |-> [s.metadata EXCEPT !.reasoning_forced_end = TRUE]]
    ELSE
        [messages |-> Append(s.messages, AIMessage("reasoning", "validation")),
         next_agent |-> next_action,
         metadata |-> [s.metadata EXCEPT
                          !.reasoning_iterations =
                              IF reasoning_forced(s) THEN s.metadata.reasoning_iterations
                              ELSE s.metadata.reasoning_iterations + 1]]

\* variant: a verdict counts twice
reasoning_node_double_count(s, next_action) ==
    IF reasoning_forced(s) THEN
        [messages |-> Append(s.messages, AIMessage("reasoning", "forced")),
         next_agent |-> "END",
         metadata |-> [s.metadata EXCEPT !.reasoning_forced_end = TRUE]]
    ELSE IF next_action = LLMFailure THEN
        [messages |-> Append(s.messages, AIMessage("reasoning", "error")),
         next_agent |-> "END"]
    ELSE
        [messages |-> Append(s.messages, AIMessage("reasoning", "validation")),
         next_agent |-> next_action,
         metadata |-> [s.metadata EXCEPT
                          !.reasoning_iterations = s.metadata.reasoning_iterations + 2]]

\* variant: the classifier failure path resets the counter
reasoning_node_reset_on_failure(s, next_action) ==
    IF reasoning_forced(s) THEN
        [messages |-> Append(s.messages, AIMessage("reasoning", "forced")),
         next_agent |-> "END",
         metadata |-> [s.metadata EXCEPT !.reasoning_forced_end = TRUE]]
    ELSE IF next_action = LLMFailure THEN
        [messages |-> Append(s.messages, AIMessage("reasoning", "error")),
         next_agent |-> "END",
         metadata |-> [s.metadata EXCEPT !.reasoning_iterations = 0]]
    ELSE
        [messages |-> Append(s.messages, AIMessage("reasoning", "validation")),
         next_agent |-> next_action,
         metadata |-> [s.metadata EXCEPT
                          !.reasoning_iterations = s.metadata.reasoning_iterations + 1]]

\* variant: a failed classifier call sends the run back to the planner
reasoning_node_retry_on_failure(s, next_action) ==
    IF reasoning_forced(s) THEN
        [messages |-> Append(s.messages, AIMessage("reasoning", "forced")),
         next_agent |-> "END",
         metadata |-> [s.metadata EXCEPT !.reasoning_forced_end = TRUE]]
    ELSE IF next_action = LLMFailure THEN
        [messages |-> Append(s.messages, AIMessage("reasoning", "error")),
         next_agent |-> "PLANNER"]
    ELSE
        [messages |-> Append(s.messages, AIMessage("reasoning", "validation")),
         next_agent |-> next_action,
         metadata |-> [s.metadata EXCEPT
                          !.reasoning_iterations = s.metadata.reasoning_iterations + 1]]

\* next_action is the "next_action" field of the classifier's JSON answer
reasoning_node(s, next_action) ==
    IF reasoning_forced(s) THEN
        [messages |-> Append(s.messages, AIMessage("reasoning", "forced")),
         next_agent |-> "END",
         metadata |-> [s.metadata EXCEPT !.reasoning_forced_end = TRUE]]
    ELSE IF next_action = LLMFailure THEN
        [messages |-> Append(s.messages, AIMessage("reasoning", "error")),
         next_agent |-> "END"]
    ELSE
        [messages |-> Append(s.messages, AIMessage("reasoning", "validation")),
         next_agent |-> next_action,
         metadata |-> [s.metadata EXCEPT
                          !.reasoning_iterations = s.metadata.reasoning_iterations + 1]]

----------------------------------------------------------------------------
(* Conditional edges: the next position after a node, from the merged state *)

route_map ==
    [a \in valid_agents |->
        CASE a = "DESTINATION_PLANNER" -> "destination_planner"
          [] a = "PLANNER" -> "planner"
          [] a = "FLIGHT" -> "flight"
          [] a = "HOTEL" -> "hotel"
          [] a = "ACTIVITY" -> "activity"
          [] a = "ITINERARY" -> "itinerary"
          [] a = "REASONING" -> "reasoning"
          [] OTHER -> "end"]

\* variant: an unknown directive falls back to the planner
route_after_router_default_planner(s) ==
    IF s.next_agent = PyNone THEN "raised"
    ELSE IF Upper(s.next_agent) \in DOMAIN route_map
         THEN route_map[Upper(s.next_agent)] ELSE "planner"

route_after_router(s) ==
    IF s.next_agent = PyNone THEN "raised"
    ELSE IF Upper(s.next_agent) \in DOMAIN route_map
         THEN route_map[Upper(s.next_agent)] ELSE "end"

\* variant: the destination planner always hands back to the router
route_after_destination_planner_back(s) == "router"

route_after_destination_planner(s) ==
    IF s.metadata.destination_selected THEN "router" ELSE "end"

route_after_planner(s) ==
    IF s.plan # PyNone /\ s.plan # "empty" THEN "planner_execution" ELSE "reasoning"

route_after_execution(s) == "reasoning"

\* variant that ends the run after a handler
route_after_specialized_agent_end(s) == "end"

route_after_specialized_agent(s) == "reasoning"

\* the nodes registered in build_graph
Nodes == {"router", "destination_planner", "planner", "planner_execution",
          "flight", "hotel", "activity", "itinerary", "reasoning"}

\* None.upper() raises AttributeError out of graph.invoke
route_after_reasoning(s) ==
    IF s.next_agent = PyNone THEN "raised"
    ELSE IF Upper(s.next_agent) # "" /\ Upper(s.next_agent) # "END"
         THEN "router" ELSE "end"

----------------------------------------------------------------------------
(* Follow-up suggestions (core/follow_up.py) *)

ACTION_REGISTRY ==
    << [action |-> "search_flights",    agent |-> "FLIGHT"],
       [action |-> "review_flights",    agent |-> "FLIGHT"],
       [action |-> "search_hotels",     agent |-> "HOTEL"],
       [action |-> "review_hotels",     agent |-> "HOTEL"],
       [action |-> "search_activities", agent |-> "ACTIVITY"],
       [action |-> "review_activities", agent |-> "ACTIVITY"],
       [action |-> "modify_itinerary",  agent |-> "ITINERARY"],
       [action |-> "create_itinerary",  agent |-> "ITINERARY"] >>

RegistryActions == {ACTION_REGISTRY[i].action : i \in 1..Len(ACTION_REGISTRY)}

\* ACTION_REGISTRY[action]["agent"]
RegistryAgent(action) ==
    ACTION_REGISTRY[CHOOSE i \in 1..Len(ACTION_REGISTRY) :
                        ACTION_REGISTRY[i].action = action].agent

\* variant: results once found are not offered for review
available_when_search_only(action, s) ==
    LET keys == DOMAIN s.tool_results
    IN  CASE action = "search_flights"    -> "flight_search" \notin keys
          [] action = "search_hotels"     -> "hotel_search" \notin keys
          [] action = "search_activities" -> "activity_search" \notin keys
          [] action = "modify_itinerary"  -> s.current_itinerary # PyNone
          [] action = "create_itinerary"  ->
                /\ s.current_itinerary = PyNone
                /\ \E k \in {"flight_search", "hotel_search", "activity_search"} : k \in keys
          [] OTHER -> FALSE

\* the available_when predicate of each registry entry
available_when(action, s) ==
    LET keys == DOMAIN s.tool_results
    IN  CASE action = "search_flights"    -> "flight_search" \notin keys
          [] action = "review_flights"    -> "flight_search" \in keys
          [] action = "search_hotels"     -> "hotel_search" \notin keys
          [] action = "review_hotels"     -> "hotel_search" \in keys
          [] action = "search_activities" -> "activity_search" \notin keys
          [] action = "review_activities" -> "activity_search" \in keys
          [] action = "modify_itinerary"  -> s.current_itinerary # PyNone
          [] action = "create_itinerary"  ->
                /\ s.current_itinerary = PyNone
                /\ \E k \in {"flight_search", "hotel_search", "activity_search"} : k \in keys
          [] OTHER -> FALSE

get_available_actions(s) ==
    LET entry(e) == available_when(e.action, s)
    IN  SelectSeq(ACTION_REGISTRY, entry)

Suggestion(token, action, agent, destination) ==
    [token |-> token, action |-> action, agent |-> agent, destination |-> destination]

\* "" stands for a key the suggestion dict does not carry
NoAgent == ""

\* variant without the cap: the whole list
Uncapped(a, b) == a

Min(a, b) == IF a < b THEN a ELSE b

generate_destination_suggestions(s) ==
    LET recommendations ==
            IF "destination_recommendations" \in DOMAIN s.tool_results
            THEN s.tool_results["destination_recommendations"] ELSE <<>>
        n == Min(Len(recommendations), MAX_DESTINATION_TOKENS)
        tokenized_suggestions ==
            [i \in 1..n |-> Suggestion(<<"D", i>>, "select_destination", NoAgent,
                                       recommendations[i])]
            \o << Suggestion(<<"D", REFINE_TOKEN_NUMBER>>, "refine_search", NoAgent, "") >>
    IN  IF Len(recommendations) = 0 THEN
            [suggestions |-> << Suggestion(<<"A", 1>>, "refine_search", NoAgent, "") >>,
             message |-> AIMessage("follow_up", "destination fallback")]
        ELSE
            [suggestions |-> tokenized_suggestions,
             message |-> AIMessageWithSuggestions("follow_up", "destinations",
                                                  tokenized_suggestions)]

default_suggestions ==
    << Suggestion(<<"A", 1>>, "search_flights", NoAgent, ""),
       Suggestion(<<"A", 2>>, "search_hotels", NoAgent, ""),
       Suggestion(<<"A", 3>>, "modify_itinerary", NoAgent, "") >>

\* variant: a suggestion's token is numbered by its action's place among the
\* available actions, not by its place in the classifier's list
generate_follow_up_suggestions_by_action(s, proposal) ==
    IF s.metadata.preplanner_phase THEN generate_destination_suggestions(s)
    ELSE
    LET available_actions == get_available_actions(s)
        names == {available_actions[i].action : i \in 1..Len(available_actions)}
        suggested_actions == proposal.actions
        positions == [i \in 1..Len(suggested_actions) |-> i]
        matching(i) == suggested_actions[i] \in names
        kept == SelectSeq(positions, matching)
        place(action) == CHOOSE i \in 1..Len(available_actions) :
                            available_actions[i].action = action
        tokenized_suggestions ==
            [j \in 1..Len(kept) |->
                Suggestion(<<"A", place(suggested_actions[kept[j]])>>,
                           suggested_actions[kept[j]],
                           RegistryAgent(suggested_actions[kept[j]]), "")]
    IN  IF Len(available_actions) = 0 THEN
            [suggestions |-> <<>>, message |-> AIMessage("follow_up", "complete")]
        ELSE IF proposal.raised THEN
            [suggestions |-> default_suggestions,
             message |-> AIMessage("follow_up", "default")]
        ELSE
            [suggestions |-> tokenized_suggestions,
             message |-> AIMessageWithSuggestions("follow_up", "actions",
                                                  tokenized_suggestions)]

\* proposal: whether the classifier call (or parsing its answer) raised, and the
\* list of action names it suggested
generate_follow_up_suggestions(s, proposal) ==
    IF s.metadata.preplanner_phase THEN generate_destination_suggestions(s)
    ELSE
    LET available_actions == get_available_actions(s)
        names == {available_actions[i].action : i \in 1..Len(available_actions)}
        suggested_actions == proposal.actions
        positions == [i \in 1..Len(suggested_actions) |-> i]
        matching(i) == suggested_actions[i] \in names
        kept == SelectSeq(positions, matching)
        tokenized_suggestions ==
            [j \in 1..Len(kept) |->
                Suggestion(<<"A", kept[j]>>, suggested_actions[kept[j]],
                           RegistryAgent(suggested_actions[kept[j]]), "")]
    IN  IF Len(available_actions) = 0 THEN
            [suggestions |-> <<>>, message |-> AIMessage("follow_up", "complete")]
        ELSE IF proposal.raised THEN
            [suggestions |-> default_suggestions,
             message |-> AIMessage("follow_up", "default")]
        ELSE
            [suggestions |-> tokenized_suggestions,
             message |-> AIMessageWithSuggestions("follow_up", "actions",
                                                  tokenized_suggestions)]

\* whether generate_follow_up_suggestions reaches llm.invoke in this state
follow_up_consults(s) ==
    ~s.metadata.preplanner_phase /\ Len(get_available_actions(s)) > 0

----------------------------------------------------------------------------
(* Token resolution *)

\* the suggestions of the last message whose additional_kwargs has "suggestions"
RECURSIVE last_suggestions(_)
last_suggestions(messages) ==
    IF Len(messages) = 0 THEN <<>>
    ELSE IF Last(messages).has_suggestions THEN Last(messages).suggestions
    ELSE last_suggestions(SubSeq(messages, 1, Len(messages) - 1))

\* position of the first suggestion carrying the token, 0 when there is none
find_suggestion(suggestions, token) ==
    IF \E i \in 1..Len(suggestions) : suggestions[i].token = token
    THEN CHOOSE i \in 1..Len(suggestions) :
            /\ suggestions[i].token = token
            /\ \A j \in 1..(i - 1) : suggestions[j].token # token
    ELSE 0

\* position of the first recommendation whose name contains the selected one, 0 if none
find_destination(recommendations, selected_destination) ==
    IF \E i \in 1..Len(recommendations) :
            NameContainedIn(selected_destination, recommendations[i])
    THEN CHOOSE i \in 1..Len(recommendations) :
            /\ NameContainedIn(selected_destination, recommendations[i])
            /\ \A j \in 1..(i - 1) :
                  ~NameContainedIn(selected_destination, recommendations[j])
    ELSE 0

\* variant: the plan made before the selection is kept
handle_destination_selection_keep_plan(s, selected_destination) ==
    LET recommendations ==
            IF "destination_recommendations" \in DOMAIN s.tool_results
            THEN s.tool_results["destination_recommendations"] ELSE <<>>
        k == find_destination(recommendations, selected_destination)
    IN  IF k # 0 THEN
            GraphState(s.messages, s.plan, s.current_itinerary,
                       [destination |-> recommendations[k]], "PLANNER", s.tool_results,
                       [s.metadata EXCEPT !.preplanner_phase = FALSE,
                                          !.destination_selected = TRUE])
        ELSE s

handle_destination_selection(s, selected_destination) ==
    LET recommendations ==
            IF "destination_recommendations" \in DOMAIN s.tool_results
            THEN s.tool_results["destination_recommendations"] ELSE <<>>
        k == find_destination(recommendations, selected_destination)
    IN  IF k # 0 THEN
            GraphState(s.messages, PyNone, PyNone,
                       [destination |-> recommendations[k]], "PLANNER", s.tool_results,
                       [s.metadata EXCEPT !.preplanner_phase = FALSE,
                                          !.destination_selected = TRUE])
        ELSE s

\* variant: the agent stored with the suggestion is ignored
target_agent_unstored(selected_suggestion) == "PLANNER"

\* the agent of an action suggestion: the stored one, else the registry's, else PLANNER
target_agent(selected_suggestion) ==
    IF selected_suggestion.agent # NoAgent THEN selected_suggestion.agent
    ELSE IF selected_suggestion.action \in RegistryActions
         THEN RegistryAgent(selected_suggestion.action)
         ELSE "PLANNER"

\* variant: resolving an action token starts the plan over
handle_user_selection_replan(s, token) ==
    LET suggestions == last_suggestions(s.messages)
        k == find_suggestion(suggestions, token)
        selected_suggestion == suggestions[k]
    IN  IF k = 0 THEN s
        ELSE IF token[1] = "D" /\ selected_suggestion.action = "select_destination" THEN
            [handle_destination_selection(s, selected_suggestion.destination)
                EXCEPT !.messages =
                    Append(s.messages,
                           HumanMessage("go to", selected_suggestion.destination))]
        ELSE IF token[1] = "D" /\ selected_suggestion.action = "refine_search" THEN
            GraphState(Append(s.messages, HumanMessage("selection", "different options")),
                       s.plan, s.current_itinerary, s.user_preferences, "",
                       s.tool_results,
                       [s.metadata EXCEPT !.preplanner_phase = TRUE])
        ELSE
            GraphState(Append(s.messages,
                              HumanMessage("selection", selected_suggestion.action)),
                       PyNone, PyNone, s.user_preferences,
                       target_agent(selected_suggestion),
                       s.tool_results, s.metadata)

handle_user_selection(s, token) ==
    LET suggestions == last_suggestions(s.messages)
        k == find_suggestion(suggestions, token)
        selected_suggestion == suggestions[k]
    IN  IF k = 0 THEN s
        ELSE IF token[1] = "D" /\ selected_suggestion.action = "select_destination" THEN
            [handle_destination_selection(s, selected_suggestion.destination)
                EXCEPT !.messages =
                    Append(s.messages,
                           HumanMessage("go to", selected_suggestion.destination))]
        ELSE IF token[1] = "D" /\ selected_suggestion.action = "refine_search" THEN
            GraphState(Append(s.messages, HumanMessage("selection", "different options")),
                       s.plan, s.current_itinerary, s.user_preferences, "",
                       s.tool_results,
                       [s.metadata EXCEPT !.preplanner_phase = TRUE])
        ELSE
            GraphState(Append(s.messages,
                              HumanMessage("selection", selected_suggestion.action)),
                       s.plan, s.current_itinerary, s.user_preferences,
                       target_agent(selected_suggestion),
                       s.tool_results, s.metadata)

----------------------------------------------------------------------------
(* Inputs *)

RouterAnswers == valid_agents \cup {"hotel", "BOGUS", LLMFailure}

ReasoningAnswers == {"END", "end", "FLIGHT", "BOGUS", PyNone, LLMFailure}

PlannerAnswers == {"steps", "empty", LLMFailure}

HandlerOutcomes == {"ok", "error"}

Raised == [raised |-> TRUE, recommendations |-> <<>>, actions |-> <<>>]
Recommends(r) == [raised |-> FALSE, recommendations |-> r, actions |-> <<>>]
Proposes(a) == [raised |-> FALSE, recommendations |-> <<>>, actions |-> a]

PreplannerOutcomes ==
    {Raised} \cup {Recommends(r) : r \in InjectiveSeqsUpTo(Destinations, MaxRecs)}

ProposalNames == {"search_hotels", "book_cruise"}

Proposals ==
    {Raised} \cup {Proposes(a) : a \in SeqsUpTo(ProposalNames, MaxSuggest)}

Tokens == {<<"A", 1>>, <<"A", 2>>, <<"D", 1>>, <<"D", 2>>,
           <<"D", REFINE_TOKEN_NUMBER>>}

\* One API call on a fresh session, every input free: the graph run in full.
GraphEnv ==
    [threads     |-> {"default"},
     queries     |-> Queries,
     tokens      |-> Tokens,
     router      |-> RouterAnswers,
     reasoning   |-> ReasoningAnswers,
     planner     |-> PlannerAnswers,
     handler     |-> HandlerOutcomes,
     preplanner  |-> PreplannerOutcomes,
     proposals   |-> Proposals,
     max_history |-> 0]

\* A dialogue about action tokens: queries and A-token selections over several calls.
ActionEnv ==
    [threads     |-> {"default"},
     queries     |-> {PlanQuery},
     tokens      |-> {<<"A", 1>>, <<"A", 2>>},
     router      |-> {"hotel", "END"},
     reasoning   |-> {"END", "FLIGHT", PyNone},
     planner     |-> {"steps"},
     handler     |-> {"ok"},
     preplanner  |-> {Raised},
     proposals   |-> {Raised, Proposes(<<"search_hotels">>),
                      Proposes(<<"book_cruise", "search_hotels">>)},
     max_history |-> MaxHistory]

\* A dialogue about destination discovery: D-token selections over several calls,
\* long enough for a turn after the planning run that follows a selection, and
\* for a selection made in a session that was planned before it asked for help.
DestinationEnv ==
    [threads     |-> {"default"},
     queries     |-> {UncertainQuery, PlanQuery},
     tokens      |-> {<<"D", 1>>, <<"D", 2>>, <<"D", REFINE_TOKEN_NUMBER>>},
     router      |-> {"PLANNER"},
     reasoning   |-> {"END"},
     planner     |-> {"steps"},
     handler     |-> {"ok"},
     preplanner  |-> PreplannerOutcomes,
     proposals   |-> {Raised, Proposes(<<"search_hotels">>)},
     max_history |-> MaxHistory + 2]

\* A dialogue that is sent to validation over and over: the counter across calls.
ValidatorEnv ==
    [threads     |-> {"default"},
     queries     |-> {PlanQuery},
     tokens      |-> {<<"A", 1>>},
     router      |-> {"REASONING"},
     reasoning   |-> {"END", "FLIGHT", LLMFailure},
     planner     |-> {"steps"},
     handler     |-> {"ok"},
     preplanner  |-> {Raised},
     proposals   |-> {Raised},
     max_history |-> MaxHistory]

\* One API call in which every classifier answers garbage or fails.
GarbageEnv ==
    [threads     |-> {"default"},
     queries     |-> {PlanQuery},
     tokens      |-> {<<"A", 1>>},
     router      |-> {"BOGUS", LLMFailure},
     reasoning   |-> {"BOGUS", LLMFailure},
     planner     |-> {"empty", LLMFailure},
     handler     |-> {"error"},
     preplanner  |-> {Raised},
     proposals   |-> {Raised},
     max_history |-> 0]

\* A query that is planned and answered, then a selection from the returned batch.
RoundTripEnv ==
    [threads     |-> {"default"},
     queries     |-> {PlanQuery},
     tokens      |-> {<<"A", 1>>},
     router      |-> {"PLANNER", "HOTEL"},
     reasoning   |-> {"END", PyNone},
     planner     |-> {"steps"},
     handler     |-> {"ok", "error"},
     preplanner  |-> {Raised},
     proposals   |-> {Raised, Proposes(<<"search_hotels">>)},
     max_history |-> MaxHistory]

\* Two conversations held through the same system object, their calls in any order.
IsolationEnv ==
    [threads     |-> Threads,
     queries     |-> {PlanQuery, UncertainQuery},
     tokens      |-> {<<"A", 1>>, <<"D", 1>>},
     router      |-> {"PLANNER"},
     reasoning   |-> {"END"},
     planner     |-> {"steps"},
     handler     |-> {"ok"},
     preplanner  |-> {Recommends(<<"Paris">>)},
     proposals   |-> {Proposes(<<"search_hotels">>)},
     max_history |-> MaxHistory]

Environments ==
    {GraphEnv, ActionEnv, DestinationEnv, ValidatorEnv, GarbageEnv, RoundTripEnv,
     IsolationEnv}

NoToken == <<"", 0>>
NoSuggestion == Suggestion(NoToken, "", NoAgent, "")
NoResult == [returned |-> FALSE, error |-> FALSE, response |-> FALSE,
             suggestions_key |-> FALSE, suggestions |-> <<>>]
\* call.before: the stored history when the call came in; call.start_iterations:
\* the validation counter the graph run started with; call.more_work: so far in
\* this run every router execution dispatched to a handler and every classifier
\* verdict of the reasoning node asked for more work
\* call.returned_token: the token is one of the suggestions the process_query call
\* just before this call returned; call.offer_thread: the thread whose call
\* generated the batch held in offered
NoCall == [op |-> "none", thread |-> "", token |-> NoToken, found |-> FALSE,
           suggestion |-> NoSuggestion, before |-> <<>>,
           start_iterations |-> 0, more_work |-> TRUE, returned_token |-> FALSE,
           offer_thread |-> ""]

----------------------------------------------------------------------------
(* The state machine *)

Init ==
    /\ sessions = [t \in {} |-> 0]
    /\ state = create_initial_state(PlanQuery)
    /\ pc = "idle"
    /\ call = NoCall
    /\ trace = <<>>
    /\ offered = <<>>
    /\ result = NoResult
    /\ env \in Environments

recursion_limit(op) ==
    IF op = "process_query" THEN RECURSION_LIMIT ELSE DEFAULT_RECURSION_LIMIT

\* graph.invoke stops with GraphRecursionError when the limit is reached before END
Advance(next, executed) ==
    IF next \notin {"end", "raised"} /\ executed >= recursion_limit(call.op)
    THEN "raised" ELSE next

\* one node execution: merge the node's delta, record it, follow the edge
NodeStep(node, delta, next, keeps_working) ==
    /\ state' = Merge(state, delta)
    /\ trace' = Append(trace, node)
    /\ pc' = Advance(next, Len(trace) + 1)
    /\ call' = [call EXCEPT !.more_work = @ /\ keeps_working]
    /\ UNCHANGED <<sessions, offered, result, env>>

\* variant: a call on an existing thread starts from a fresh state
process_query_fresh(t, query) ==
    /\ pc = "idle"
    /\ t \in DOMAIN sessions => Len(sessions[t].messages) <= env.max_history
    /\ state' = [create_initial_state(query) EXCEPT
                    !.messages = Append(@, HumanMessage("query", query))]
    /\ call' = [NoCall EXCEPT
                    !.op = "process_query", !.thread = t,
                    !.offer_thread = call.offer_thread,
                    !.before = IF t \in DOMAIN sessions THEN sessions[t].messages ELSE <<>>,
                    !.start_iterations = state'.metadata.reasoning_iterations]
    /\ trace' = <<>>
    /\ pc' = "router"
    /\ UNCHANGED <<sessions, offered, result, env>>

process_query(t, query) ==
    /\ pc = "idle"
    /\ t \in DOMAIN sessions => Len(sessions[t].messages) <= env.max_history
    /\ LET existing == t \in DOMAIN sessions
           s0 == IF existing THEN sessions[t] ELSE create_initial_state(query)
           s1 == [s0 EXCEPT !.messages = Append(@, HumanMessage("query", query))]
       IN  /\ sessions' = IF existing THEN [sessions EXCEPT ![t] = s1] ELSE sessions
           /\ state' = s1
    /\ call' = [NoCall EXCEPT
                    !.op = "process_query", !.thread = t,
                    !.offer_thread = call.offer_thread,
                    !.before = IF t \in DOMAIN sessions THEN sessions[t].messages ELSE <<>>,
                    !.start_iterations = state'.metadata.reasoning_iterations]
    /\ trace' = <<>>
    /\ pc' = "router"
    /\ UNCHANGED <<offered, result, env>>

handle_suggestion_selection_unknown(t, token) ==
    /\ pc = "idle"
    /\ t \notin DOMAIN sessions
    /\ result' = [returned |-> TRUE, error |-> TRUE, response |-> FALSE,
                  suggestions_key |-> FALSE, suggestions |-> <<>>]
    /\ call' = [NoCall EXCEPT !.op = "handle_suggestion_selection",
                              !.thread = t, !.token = token,
                              !.offer_thread = call.offer_thread]
    /\ UNCHANGED <<sessions, state, pc, trace, offered, env>>

\* handle_destination_selection found no candidate and returned the stored dict
\* itself, so the assignment to its "messages" key writes into the stored session
selection_writes_session(s, token) ==
    LET suggestions == last_suggestions(s.messages)
        k == find_suggestion(suggestions, token)
    IN  /\ k # 0
        /\ token[1] = "D"
        /\ suggestions[k].action = "select_destination"
        /\ handle_destination_selection(s, suggestions[k].destination) = s

handle_suggestion_selection(t, token) ==
    /\ pc = "idle"
    /\ t \in DOMAIN sessions
    /\ Len(sessions[t].messages) <= env.max_history
    /\ LET s == sessions[t]
           suggestions == last_suggestions(s.messages)
           k == find_suggestion(suggestions, token)
           updated_state == handle_user_selection(s, token)
       IN  /\ state' = updated_state
           /\ sessions' = IF selection_writes_session(s, token)
                          THEN [sessions EXCEPT ![t] = updated_state] ELSE sessions
           /\ call' = [op |-> "handle_suggestion_selection", thread |-> t,
                       token |-> token, found |-> k # 0,
                       suggestion |-> IF k # 0 THEN suggestions[k] ELSE NoSuggestion,
                       before |-> s.messages,
                       start_iterations |-> updated_state.metadata.reasoning_iterations,
                       more_work |-> TRUE,
                       offer_thread |-> call.offer_thread,
                       returned_token |->
                           /\ call.op = "process_query" /\ result.returned
                           /\ \E i \in 1..Len(result.suggestions) :
                                  result.suggestions[i].token = token]
    /\ trace' = <<>>
    /\ pc' = "router"
    /\ UNCHANGED <<offered, result, env>>

router ==
    /\ pc = "router"
    /\ \E answer \in env.router :
         LET delta == router_node(state, answer)
         IN  NodeStep("router", delta,
                      route_after_router(Merge(state, delta)),
                      route_after_router(Merge(state, delta))
                          \notin {"end", "raised", "destination_planner"})

destination_planner ==
    /\ pc = "destination_planner"
    /\ \E outcome \in env.preplanner :
         LET delta == preplanner_agent_node(state, outcome)
         IN  NodeStep("destination_planner", delta,
                      route_after_destination_planner(Merge(state, delta)), TRUE)

planner ==
    /\ pc = "planner"
    /\ \E answer \in env.planner :
         LET delta == planner_node(state, answer)
         IN  NodeStep("planner", delta,
                      route_after_planner(Merge(state, delta)), TRUE)

planner_execution ==
    /\ pc = "planner_execution"
    /\ LET delta == planner_execution_node(state)
       IN  NodeStep("planner_execution", delta,
                    route_after_execution(Merge(state, delta)), TRUE)

flight ==
    /\ pc = "flight"
    /\ \E outcome \in env.handler :
         LET delta == flight_agent_node(state, outcome)
         IN  NodeStep("flight", delta,
                      route_after_specialized_agent(Merge(state, delta)), TRUE)

hotel ==
    /\ pc = "hotel"
    /\ \E outcome \in env.handler :
         LET delta == hotel_agent_node(state, outcome)
         IN  NodeStep("hotel", delta,
                      route_after_specialized_agent(Merge(state, delta)), TRUE)

activity ==
    /\ pc = "activity"
    /\ \E outcome \in env.handler :
         LET delta == activity_agent_node(state, outcome)
         IN  NodeStep("activity", delta,
                      route_after_specialized_agent(Merge(state, delta)), TRUE)

itinerary ==
    /\ pc = "itinerary"
    /\ \E outcome \in env.handler :
         LET delta == itinerary_agent_node(state, outcome)
         IN  NodeStep("itinerary", delta,
                      route_after_specialized_agent(Merge(state, delta)), TRUE)

reasoning ==
    /\ pc = "reasoning"
    /\ \E next_action \in env.reasoning :
         LET delta == reasoning_node(state, next_action)
         IN  NodeStep("reasoning", delta,
                      route_after_reasoning(Merge(state, delta)),
                      reasoning_forced(state) \/ NeedsMoreWork(next_action))

\* _summarize_state reads state.get("plan", {}).get("steps", []): the default {}
\* is not used when the key holds None, and None.get raises AttributeError
summarize_state_raises(s) == s.plan = PyNone

\* the dict the except clause of an API call returns
except_result(op) ==
    [returned |-> TRUE, error |-> TRUE, response |-> TRUE,
     suggestions_key |-> (op = "process_query"), suggestions |-> <<>>]

\* variant: one state is kept for all the threads the system knows
StoreAndSuggest_shared(proposal) ==
    LET follow_up_result == generate_follow_up_suggestions(state, proposal)
        final_state == [state EXCEPT !.messages = Append(@, follow_up_result.message)]
    IN  /\ sessions' = [t \in DOMAIN sessions \cup {call.thread} |-> final_state]
        /\ state' = final_state
        /\ offered' = follow_up_result.suggestions
        /\ result' = IF summarize_state_raises(final_state) THEN except_result(call.op)
                      ELSE [returned |-> TRUE, error |-> FALSE, response |-> TRUE,
                            suggestions_key |-> TRUE,
                            suggestions |-> follow_up_result.suggestions]
        /\ pc' = "idle"
        /\ call' = [call EXCEPT !.offer_thread = call.thread]
        /\ UNCHANGED <<trace, env>>

\* the part of both API calls after graph.invoke returned: store the final state,
\* generate the follow-up, append its message, store again, build the result;
\* an exception while the result is built leaves both stores done
StoreAndSuggest(proposal) ==
    LET follow_up_result == generate_follow_up_suggestions(state, proposal)
        final_state == [state EXCEPT !.messages = Append(@, follow_up_result.message)]
    IN  /\ sessions' = With(sessions, call.thread, final_state)
        /\ state' = final_state
        /\ offered' = follow_up_result.suggestions
        /\ result' = IF summarize_state_raises(final_state) THEN except_result(call.op)
                      ELSE [returned |-> TRUE, error |-> FALSE, response |-> TRUE,
                            suggestions_key |-> TRUE,
                            suggestions |-> follow_up_result.suggestions]
        /\ pc' = "idle"
        /\ call' = [call EXCEPT !.offer_thread = call.thread]
        /\ UNCHANGED <<trace, env>>

process_query_return ==
    /\ pc = "end"
    /\ call.op = "process_query"
    /\ \E proposal \in env.proposals : StoreAndSuggest(proposal)

handle_suggestion_selection_return ==
    /\ pc = "end"
    /\ call.op = "handle_suggestion_selection"
    /\ \E proposal \in env.proposals : StoreAndSuggest(proposal)

process_query_except ==
    /\ pc = "raised"
    /\ call.op = "process_query"
    /\ result' = except_result(call.op)
    /\ pc' = "idle"
    /\ UNCHANGED <<sessions, state, call, trace, offered, env>>

handle_suggestion_selection_except ==
    /\ pc = "raised"
    /\ call.op = "handle_suggestion_selection"
    /\ result' = except_result(call.op)
    /\ pc' = "idle"
    /\ UNCHANGED <<sessions, state, call, trace, offered, env>>

Next ==
    \/ \E t \in env.threads, query \in env.queries : process_query(t, query)
    \/ \E t \in env.threads, token \in env.tokens : handle_suggestion_selection_unknown(t, token)
    \/ \E t \in env.threads, token \in env.tokens : handle_suggestion_selection(t, token)
    \/ router
    \/ destination_planner
    \/ planner
    \/ planner_execution
    \/ flight
    \/ hotel
    \/ activity
    \/ itinerary
    \/ reasoning
    \/ process_query_return
    \/ handle_suggestion_selection_return
    \/ process_query_except
    \/ handle_suggestion_selection_except

Spec == Init /\ [][Next]_vars

----------------------------------------------------------------------------
(* The functions on their own: an edge resolver and the follow-up generator,  *)
(* each applied once to a state drawn from the directives, candidate lists    *)
(* and phases a node or a caller can hand them.                               *)

\* next_agent values an edge resolver can be handed: the known names in either
\* case, an unknown name, and the empty string of a missing key
Directives == valid_agents \cup {"hotel", "end", "BOGUS", ""}

\* a stored list of n candidate destinations
Candidates(n) ==
    [i \in 1..n |-> IF i = 1 THEN "San Diego Bay"
                    ELSE IF i = 2 THEN "San Diego" ELSE "Lisbon"]

FunctionInit ==
    /\ sessions = [t \in {} |-> 0]
    /\ pc = "input"
    /\ call = NoCall
    /\ trace = <<>>
    /\ offered = <<>>
    /\ result = NoResult
    /\ env = GraphEnv
    /\ \E next_agent \in Directives, n \in 0..MaxCandidates, preplanner_phase \in BOOLEAN :
          state = GraphState(<<HumanMessage("query", UncertainQuery)>>, PyNone, PyNone,
                             [destination |-> ""], next_agent,
                             With(NoToolResults, "destination_recommendations", Candidates(n)),
                             [DefaultMetadata EXCEPT !.preplanner_phase = preplanner_phase])

apply_route_after_router ==
    /\ pc = "input"
    /\ trace' = <<route_after_router(state)>>
    /\ pc' = "routed"
    /\ UNCHANGED <<sessions, state, call, offered, result, env>>

apply_generate_follow_up_suggestions ==
    /\ pc = "input"
    /\ \E proposal \in env.proposals :
          LET follow_up_result == generate_follow_up_suggestions(state, proposal)
          IN  /\ offered' = follow_up_result.suggestions
              /\ state' = [state EXCEPT !.messages = Append(@, follow_up_result.message)]
    /\ pc' = "suggested"
    /\ UNCHANGED <<sessions, call, trace, result, env>>

FunctionNext ==
    \/ apply_route_after_router
    \/ apply_generate_follow_up_suggestions

FunctionSpec == FunctionInit /\ [][FunctionNext]_vars

----------------------------------------------------------------------------
(* Properties *)

Count(seq, x) == Cardinality({i \in DOMAIN seq : seq[i] = x})

reasoning_iterations(s) == s.metadata.reasoning_iterations

Selecting == call.op = "handle_suggestion_selection"

\* the graph run of a selection call has just been handed its starting state
SelectionResolved == Selecting /\ pc = "router" /\ trace = <<>>

\* C1: every graph run, from any session state and under any classifier answers
\* (failures included), stops at END after finitely many node executions: it is
\* never left at a position that is neither a node still to run nor END.
C1_EveryRunReachesEnd ==
    /\ pc \in Nodes \cup {"end", "idle"}
    /\ Len(trace) <= RECURSION_LIMIT

\* C2: the validation counter metadata.reasoning_iterations is at most
\* MAX_REASONING_ITERATIONS (2) in the state of a running graph and in every
\* stored session.
C2_CounterBounded ==
    /\ reasoning_iterations(state) <= MAX_REASONING_ITERATIONS
    /\ \A t \in DOMAIN sessions :
          reasoning_iterations(sessions[t]) <= MAX_REASONING_ITERATIONS

\* a stored session whose counter stands at the limit after a forced end
C2_Witness ==
    /\ pc = "idle"
    /\ \E t \in DOMAIN sessions :
          /\ reasoning_iterations(sessions[t]) = MAX_REASONING_ITERATIONS
          /\ sessions[t].metadata.reasoning_forced_end

\* C3: when reasoning_node executes with the counter at or above
\* MAX_REASONING_ITERATIONS, the forced-end test applies first: the step is the
\* same whatever the classifier would have answered (it is not consulted), it
\* sets next_agent to END and the run ends at that step.
C3_ForcedEndFirst ==
    [][(pc = "reasoning" /\ reasoning_forced(state)) =>
          /\ \A answer \in ReasoningAnswers :
                state' = Merge(state, reasoning_node(state, answer))
          /\ state'.next_agent = "END"
          /\ state'.metadata.reasoning_forced_end
          /\ pc' = "end"]_vars

\* a run that ended in a forced end in a later call of a session whose counter
\* was already at the limit
C3_Witness ==
    /\ pc = "end"
    /\ trace # <<>>
    /\ Last(trace) = "reasoning"
    /\ call.start_iterations >= MAX_REASONING_ITERATIONS
    /\ Last(state.messages).content = <<"reasoning", "forced">>

\* a run that started with the counter at 0 and in which the router always
\* dispatched work and every classifier verdict asked for more work has ended
MoreWorkRunEnded ==
    /\ pc = "end"
    /\ call.start_iterations = 0
    /\ call.more_work

C6_DirectJumpToTarget ==
    (Selecting /\ call.found /\ call.token[1] = "A" /\ trace # <<>>) =>
        trace[1] = route_map[target_agent(call.suggestion)]

C8_OfferedActionsAvailable ==
    (pc = "idle" /\ result.returned /\ ~result.error /\ ~state.metadata.preplanner_phase) =>
        \A i \in 1..Len(offered) :
            /\ offered[i].action \in RegistryActions
            /\ available_when(offered[i].action, state)

\* C9: a token is resolved only against the newest offer: the suggestion a
\* selection call resolved its token to is one of the batch offered last.
C9_ResolvedAgainstNewestOffer ==
    (Selecting /\ pc # "idle" /\ call.found) =>
        \E i \in 1..Len(offered) : offered[i] = call.suggestion

\* C10: a token that is not in the stored batch fails soft: next_agent is left
\* alone, the raw input is added to the history as a new user message, and the
\* run starts at the router without an exception.
C10_StaleTokenFailsSoft ==
    (SelectionResolved /\ ~call.found) =>
        /\ Len(state.messages) = Len(call.before) + 1
        /\ Last(state.messages).type = "human"
        /\ SubSeq(state.messages, 1, Len(call.before)) = call.before

\* C11: every delta router_node can return carries next_agent from the fixed
\* set valid_agents, whatever the classifier answers; an answer outside the
\* set is replaced by PLANNER, and a failing classifier call still yields a delta.
C11_RouterDeltaValid ==
    [][pc = "router" =>
          /\ \A answer \in RouterAnswers :
                /\ "next_agent" \in DOMAIN router_node(state, answer)
                /\ router_node(state, answer).next_agent \in valid_agents
                /\ (router_consults(state) /\ answer # LLMFailure
                        /\ Upper(answer) \notin valid_agents)
                   => router_node(state, answer).next_agent = "PLANNER"]_vars

\* the classifier answered a name outside the set and the planner is next
C11_Witness ==
    /\ env = GarbageEnv
    /\ trace # <<>>
    /\ Last(trace) = "router"
    /\ state.next_agent = "PLANNER"
    /\ pc = "planner"

\* C12: route_after_router is fail-closed: a next_agent that is none of the
\* eight known names, compared case-insensitively, the empty string of a
\* missing value included, is resolved to "end", and a known name to its node.
C12_RouterEdgeFailClosed ==
    pc = "routed" =>
        IF Upper(state.next_agent) \in valid_agents
        THEN trace = <<route_map[Upper(state.next_agent)]>>
        ELSE trace = <<"end">>

\* an unknown name was resolved to termination
C12_Witness ==
    /\ pc = "routed"
    /\ state.next_agent = "BOGUS"
    /\ trace = <<"end">>

\* C13: when the classifier's validation answer names a next action outside
\* the fixed target set, the run ends after the reasoning node: neither the
\* router nor a handler runs next.
C13_InvalidVerdictEndsRun ==
    (/\ trace # <<>>
     /\ Last(trace) = "reasoning"
     /\ Last(state.messages).content = <<"reasoning", "validation">>
     /\ state.next_agent # PyNone
     /\ Upper(state.next_agent) \notin valid_agents)
    => pc = "end"

\* C14: when the classifier call fails inside the router, the router's
\* directive is the default handler PLANNER and no error text is added to the
\* history.
C14_RouterFailureDefaultsToPlanner ==
    [][(/\ pc = "router"
        /\ router_consults(state)
        /\ state' = Merge(state, router_node(state, LLMFailure)))
       => /\ state'.next_agent = "PLANNER"
          /\ \A i \in 1..Len(state'.messages) :
                state'.messages[i].content # <<"router", "error">>]_vars

\* C15: when the classifier call, or the parsing of its answer, fails inside
\* the reasoning node, the node's directive is END and the run ends at that
\* step, in every state the node runs in.
C15_ValidatorFailureEndsRun ==
    [][(pc = "reasoning" /\ state' = Merge(state, reasoning_node(state, LLMFailure)))
       => /\ reasoning_node(state, LLMFailure).next_agent = "END"
          /\ state'.next_agent = "END"
          /\ pc' = "end"]_vars

\* a first validation whose classifier call failed ended the run
C15_Witness ==
    /\ pc = "end"
    /\ trace # <<>>
    /\ Last(trace) = "reasoning"
    /\ Count(trace, "reasoning") = 1
    /\ Last(state.messages).content = <<"reasoning", "error">>
    /\ ~state.metadata.reasoning_forced_end

\* the stored history of s2 extends that of s1, and s2 keeps every tool result of s1
Extends(s2, s1) ==
    /\ Len(s2.messages) >= Len(s1.messages)
    /\ SubSeq(s2.messages, 1, Len(s1.messages)) = s1.messages
    /\ DOMAIN s1.tool_results \subseteq DOMAIN s2.tool_results

C18_DestinationSelectionApplied ==
    (SelectionResolved /\ call.found /\ call.suggestion.action = "select_destination") =>
        /\ state.user_preferences.destination = call.suggestion.destination
        /\ state.metadata.destination_selected
        /\ state.next_agent = "PLANNER"
        /\ ~router_consults(state)
        /\ \A answer \in RouterAnswers : router_node(state, answer).next_agent = "PLANNER"

\* C19: while preplanner_phase is true and destination recommendations exist,
\* generate_follow_up_suggestions returns exactly one select_destination
\* suggestion per candidate, tokens D1..Dn in candidate order with n at most
\* MAX_DESTINATION_TOKENS, followed by one refine_search suggestion with token
\* D99, and no suggestion whose action is an ACTION_REGISTRY entry.
C19_DestinationBatch ==
    (pc = "suggested" /\ state.metadata.preplanner_phase
        /\ state.tool_results["destination_recommendations"] # <<>>) =>
        LET recommendations == state.tool_results["destination_recommendations"]
            n == Len(offered) - 1
        IN  /\ n >= 1 /\ n <= MAX_DESTINATION_TOKENS
            /\ n = Len(recommendations) \/ (n = MAX_DESTINATION_TOKENS /\ Len(recommendations) > n)
            /\ \A i \in 1..n :
                 /\ offered[i].token = <<"D", i>>
                 /\ offered[i].action = "select_destination"
                 /\ offered[i].destination = recommendations[i]
            /\ offered[n + 1].token = <<"D", REFINE_TOKEN_NUMBER>>
            /\ offered[n + 1].action = "refine_search"
            /\ \A i \in 1..Len(offered) : offered[i].action \notin RegistryActions

\* more candidates than tokens: six candidates give D1..D5 and D99
C19_Witness ==
    /\ pc = "suggested"
    /\ state.metadata.preplanner_phase
    /\ Len(state.tool_results["destination_recommendations"]) = MAX_DESTINATION_TOKENS + 1
    /\ Len(offered) = MAX_DESTINATION_TOKENS + 1
    /\ offered[MAX_DESTINATION_TOKENS].token = <<"D", MAX_DESTINATION_TOKENS>>
    /\ offered[Len(offered)].action = "refine_search"

\* C20: after every execution of a domain handler node (flight, hotel,
\* activity, itinerary), completed or failed, the next node is reasoning; a
\* failure is turned into a delta that carries the messages alone and the run
\* goes on.
C20_HandlerThenReasoning ==
    [][(pc \in {"flight", "hotel", "activity", "itinerary"}) =>
          (LET failed ==
                  IF pc = "flight" THEN flight_agent_node(state, "error")
                  ELSE IF pc = "hotel" THEN hotel_agent_node(state, "error")
                  ELSE IF pc = "activity" THEN activity_agent_node(state, "error")
                  ELSE itinerary_agent_node(state, "error")
          IN  /\ pc' = route_after_specialized_agent(state')
              /\ pc' = "reasoning"
              /\ trace' = Append(trace, pc)
              /\ DOMAIN failed = {"messages"}
              /\ Len(failed.messages) = Len(state.messages) + 1
              /\ result' = result)
      ]_vars

\* a handler failed and the validation node is the next to run
C20_Witness ==
    /\ pc = "reasoning"
    /\ trace # <<>>
    /\ Last(trace) \in {"flight", "hotel", "activity", "itinerary"}
    /\ Last(state.messages).content = <<Last(trace), "error">>

\* the tool_results keys a node writes
own_keys(node) ==
    CASE node = "flight" -> {"flight_search"}
      [] node = "hotel" -> {"hotel_search"}
      [] node = "activity" -> {"activity_search"}
      [] node = "itinerary" -> {"itinerary"}
      [] node = "destination_planner" -> {"destination_recommendations"}
      [] node = "planner_execution" -> {"s1"}
      [] OTHER -> {}

C22_HistoryAppendOnly ==
    [][(pc \in Nodes) =>
          /\ Len(state'.messages) >= Len(state.messages)
          /\ SubSeq(state'.messages, 1, Len(state.messages)) = state.messages
      ]_vars

\* a run of four nodes on a fresh session: the two query messages the run
\* started with and one message per node
C22_Witness ==
    /\ pc = "end"
    /\ trace = <<"router", "planner", "planner_execution", "reasoning">>
    /\ Len(state.messages) = 2 + Len(trace)
    /\ state.messages[1] = HumanMessage("query", PlanQuery)
    /\ state.messages[2] = HumanMessage("query", PlanQuery)
    /\ Last(state.messages).content[1] = "reasoning"

\* C23: process_query followed immediately by handle_suggestion_selection with a
\* token from the returned suggestions never raises, whatever the classifier
\* and the handlers do, and its result always contains both a response text
\* and a suggestions list.
C23_RoundTripWellFormed ==
    (pc = "idle" /\ Selecting /\ call.returned_token /\ result.returned) =>
        /\ result.response
        /\ result.suggestions_key

\* C24: every result returned by process_query and by
\* handle_suggestion_selection, on every path including unknown session and
\* internal failure, contains a textual response for the user.
C24_ResultHasResponse ==
    result.returned => result.response

\* C25: within one offered batch no two suggestions carry the same token, for
\* action batches, destination batches and fallback batches alike, whatever
\* the classifier proposes (the same action twice included).
C25_TokensUniqueInBatch ==
    pc = "suggested" =>
        \A i, j \in 1..Len(offered) : i # j => offered[i].token # offered[j].token

\* the classifier proposed the same action twice: two suggestions, two tokens
C25_Witness ==
    /\ pc = "suggested"
    /\ Len(offered) = 2
    /\ offered[1].action = "search_hotels" /\ offered[2].action = "search_hotels"
    /\ offered[1].token = <<"A", 1>> /\ offered[2].token = <<"A", 2>>

\* C26: the tokens of an action batch are sequential over the chosen subset: a
\* batch of n suggestions carries exactly the tokens A1..An in order, without
\* gaps, whatever the classifier proposes (names that are not available
\* actions included).
C26_ActionTokensSequential ==
    (pc = "suggested" /\ ~state.metadata.preplanner_phase) =>
        \A i \in 1..Len(offered) : offered[i].token = <<"A", i>>

\* C27: for a fresh session whose first message is a request to plan a trip to
\* a named destination, the directive the router produces on the first step of
\* the run is never the terminal sentinel END.
C27_FirstDirectiveNotEnd ==
    (/\ call.op = "process_query" /\ call.before = <<>>
     /\ trace = <<"router">>
     /\ state.messages[1].content = <<"query", PlanQuery>>) =>
        state.next_agent # "END"

\* the delta of a handler node for an outcome of its search
handler_delta(node, s, outcome) ==
    IF node = "flight" THEN flight_agent_node(s, outcome)
    ELSE IF node = "hotel" THEN hotel_agent_node(s, outcome)
    ELSE IF node = "activity" THEN activity_agent_node(s, outcome)
    ELSE itinerary_agent_node(s, outcome)

C29_UncertainGoesToDestinationPlanner ==
    (/\ pc = "router"
     /\ state.user_preferences.destination = ""
     /\ ~state.metadata.destination_selected
     /\ Last(state.messages).content[2] = UncertainQuery) =>
        /\ ~router_consults(state)
        /\ \A answer \in RouterAnswers :
              /\ router_node(state, answer).next_agent = "DESTINATION_PLANNER"
              /\ router_node(state, answer).messages =
                     Append(state.messages, AIMessage("router", "announce"))

\* the router has sent an uncertain first query to the destination planner
C29_Witness ==
    /\ pc = "destination_planner"
    /\ trace = <<"router">>
    /\ call.op = "process_query" /\ call.before = <<>>
    /\ ~state.metadata.preplanner_phase
    /\ state.next_agent = "DESTINATION_PLANNER"
    /\ Last(state.messages).content = <<"router", "announce">>
    /\ state.messages[Len(state.messages) - 1].content = <<"query", UncertainQuery>>

\* the entries of get_available_actions for a state, as a set of names
available_names(s) ==
    {get_available_actions(s)[i].action : i \in 1..Len(get_available_actions(s))}

\* exactly one of two registry entries is available
one_of(s, a, b) == (a \in available_names(s)) # (b \in available_names(s))

\* C30: in every state the set of available follow-up actions is non-empty:
\* for each of flight, hotel and activity exactly one of its search / review
\* entries is available and at most one of modify_itinerary / create_itinerary
\* is, so get_available_actions returns 3 or 4 entries and the "no further
\* actions available" answer of generate_follow_up_suggestions is never given.
C30_AvailableActionsNonEmpty ==
    /\ one_of(state, "search_flights", "review_flights")
    /\ one_of(state, "search_hotels", "review_hotels")
    /\ one_of(state, "search_activities", "review_activities")
    /\ ~({"modify_itinerary", "create_itinerary"} \subseteq available_names(state))
    /\ Len(get_available_actions(state)) \in {3, 4}
    /\ \A i \in 1..Len(state.messages) :
          state.messages[i].content # <<"follow_up", "complete">>

\* a call returned with results found and an itinerary composed: four entries
C30_Witness ==
    /\ pc = "idle"
    /\ result.returned
    /\ state.current_itinerary # PyNone
    /\ "hotel_search" \in DOMAIN state.tool_results
    /\ available_names(state) =
          {"search_flights", "review_hotels", "search_activities", "modify_itinerary"}
    /\ Last(state.messages).content[1] = "follow_up"

\* C31: selecting token Dk of a destination batch sets
\* user_preferences.destination to the destination of the k-th candidate shown
\* in that batch, for every list of recommendations, lists where one
\* candidate's name is contained in another's included.
C31_TokenPicksKthCandidate ==
    (/\ SelectionResolved /\ call.found
     /\ call.token[1] = "D"
     /\ call.suggestion.action = "select_destination") =>
        LET batch == last_suggestions(call.before)
            k == call.token[2]
        IN  /\ k \in 1..Len(batch)
            /\ batch[k].token = call.token
            /\ state.user_preferences.destination = batch[k].destination

\* C32: metadata.destination_selected is sticky: no node execution, no call
\* start and no store clears it once it is set, and while it is set every
\* router execution returns PLANNER without consulting the classifier,
\* whatever the last message asks for.
C32_DestinationSelectedSticky ==
    [][/\ (pc \in Nodes /\ state.metadata.destination_selected) =>
            state'.metadata.destination_selected
       /\ \A t \in DOMAIN sessions :
            sessions[t].metadata.destination_selected =>
                /\ sessions'[t].metadata.destination_selected
                /\ (pc = "idle" /\ pc' = "router" /\ call'.thread = t) =>
                       state'.metadata.destination_selected
       /\ (pc = "router" /\ state.metadata.destination_selected) =>
            /\ ~router_consults(state)
            /\ \A answer \in RouterAnswers :
                  router_node(state, answer).next_agent = "PLANNER"
            /\ state'.next_agent = "PLANNER"
      ]_vars

\* a later turn of a session with a selected destination: the user asks for
\* help choosing a destination again and the router still hands over to the planner
C32_Witness ==
    /\ pc = "planner"
    /\ trace = <<"router">>
    /\ call.op = "process_query"
    /\ call.thread \in DOMAIN sessions
    /\ sessions[call.thread].metadata.destination_selected
    /\ sessions[call.thread].metadata.plan_created
    /\ Last(state.messages).content = <<"query", UncertainQuery>>
    /\ state.next_agent = "PLANNER"

\* C33: once the destination planner has run in a session (preplanner_phase
\* true) and until a destination token is selected, the phase stays on and
\* every router execution returns DESTINATION_PLANNER, regardless of the
\* content of the last message and without consulting the classifier.
C33_PreplannerPhaseHoldsRouter ==
    [][/\ (pc \in Nodes /\ state.metadata.preplanner_phase
                        /\ ~state.metadata.destination_selected) =>
            state'.metadata.preplanner_phase
       /\ \A t \in DOMAIN sessions :
            (sessions[t].metadata.preplanner_phase
                 /\ ~sessions[t].metadata.destination_selected) =>
                /\ sessions'[t].metadata.preplanner_phase
                      \/ sessions'[t].metadata.destination_selected
                /\ (pc = "idle" /\ pc' = "router" /\ call'.thread = t) =>
                       \/ state'.metadata.preplanner_phase
                       \/ state'.metadata.destination_selected
                              /\ call'.suggestion.action = "select_destination"
       /\ (pc = "router" /\ state.metadata.preplanner_phase
                         /\ ~state.metadata.destination_selected) =>
            /\ ~router_consults(state)
            /\ \A answer \in RouterAnswers :
                  router_node(state, answer).next_agent = "DESTINATION_PLANNER"
            /\ state'.next_agent = "DESTINATION_PLANNER"
      ]_vars

\* a later turn in the phase: the last message asks for nothing about
\* destinations the router's phrases know, and the router hands over to the
\* destination planner
C33_Witness ==
    /\ pc = "destination_planner"
    /\ trace = <<"router">>
    /\ call.before # <<>>
    /\ state.metadata.preplanner_phase
    /\ ~state.metadata.destination_selected
    /\ state.messages[Len(state.messages) - 1].type = "human"
    /\ ~HasUncertaintyPhrase(state.messages[Len(state.messages) - 1].content)

\* C34: the validation counter is carried over between the turns of a session
\* and never reset: the counter a run has reached is the counter the session
\* holds when the call has returned, so that over the lifetime of a session at
\* most MAX_REASONING_ITERATIONS validations complete with a verdict.
C34_CounterCarriedOver ==
    (/\ pc = "idle" /\ call.op # "none" /\ result.returned
     /\ call.thread \in DOMAIN sessions) =>
        reasoning_iterations(sessions[call.thread]) = reasoning_iterations(state)

\* C35: whenever the destination_planner node executes, the run ends right
\* after it: the node never hands control back to the router.
C35_DestinationPlannerEndsRun ==
    [][pc = "destination_planner" =>
          /\ pc' = "end"
          /\ trace' = Append(trace, "destination_planner")
          /\ ~state'.metadata.destination_selected
      ]_vars

\* the destination planner has returned its recommendations and the run is over
C35_Witness ==
    /\ pc = "end"
    /\ trace = <<"router", "destination_planner">>
    /\ state.metadata.preplanner_phase
    /\ state.tool_results["destination_recommendations"] # <<>>

\* C36: resolving an action token changes two things only: it appends exactly
\* one synthetic user message to the history and sets next_agent; plan,
\* current_itinerary, user_preferences, tool_results and metadata are left
\* as they were.
C36_ActionTokenFrame ==
    (SelectionResolved /\ call.found /\ call.token[1] = "A") =>
        LET before == sessions[call.thread]
        IN  /\ state.messages =
                  Append(before.messages, HumanMessage("selection", call.suggestion.action))
            /\ state.next_agent = target_agent(call.suggestion)
            /\ state.plan = before.plan
            /\ state.current_itinerary = before.current_itinerary
            /\ state.user_preferences = before.user_preferences
            /\ state.tool_results = before.tool_results
            /\ state.metadata = before.metadata

\* an action token is resolved in a session that holds a plan and results
C36_Witness ==
    /\ SelectionResolved /\ call.found
    /\ call.token = <<"A", 1>>
    /\ state.plan # PyNone
    /\ DOMAIN state.tool_results # {}
    /\ state.next_agent = "HOTEL"
    /\ Len(state.messages) = Len(call.before) + 1

\* a destination token has been resolved to one of the stored candidates
DestinationMatched ==
    /\ SelectionResolved /\ call.found
    /\ call.suggestion.action = "select_destination"
    /\ state.metadata.destination_selected
    /\ ~selection_writes_session(sessions[call.thread], call.token)

\* C37 as stated: resolving a destination token that matches a candidate
\* discards plan and current_itinerary, clears metadata.preplanner_phase, keeps
\* every tool_results key and every other metadata entry, and appends exactly
\* one synthetic user message to the history.
C37_DestinationTokenFrame ==
    DestinationMatched =>
        LET before == sessions[call.thread]
        IN  /\ state.plan = PyNone /\ state.current_itinerary = PyNone
            /\ ~state.metadata.preplanner_phase
            /\ state.tool_results = before.tool_results
            /\ \A key \in DOMAIN before.metadata \ {"preplanner_phase"} :
                  state.metadata[key] = before.metadata[key]
            /\ Len(state.messages) = Len(before.messages) + 1
            /\ SubSeq(state.messages, 1, Len(before.messages)) = before.messages
            /\ Last(state.messages).type = "human"

\* C37 amended: the entries of metadata that are kept are those other than
\* preplanner_phase and destination_selected; destination_selected is set.
C37_DestinationTokenFrameButSelected ==
    DestinationMatched =>
        LET before == sessions[call.thread]
        IN  /\ state.plan = PyNone /\ state.current_itinerary = PyNone
            /\ ~state.metadata.preplanner_phase
            /\ state.metadata.destination_selected
            /\ state.tool_results = before.tool_results
            /\ \A key \in DOMAIN before.metadata \ {"preplanner_phase", "destination_selected"} :
                  state.metadata[key] = before.metadata[key]
            /\ Len(state.messages) = Len(before.messages) + 1
            /\ SubSeq(state.messages, 1, Len(before.messages)) = before.messages
            /\ Last(state.messages).type = "human"

\* a destination token is resolved in a session that holds a plan
C37_Witness ==
    /\ DestinationMatched
    /\ sessions[call.thread].plan # PyNone
    /\ sessions[call.thread].metadata.preplanner_phase
    /\ state.plan = PyNone

\* C38: if graph execution fails with an exception during process_query on an
\* existing session, the stored session is left as it was before the call: it
\* holds the same history, without the new user message.
C38_FailedQueryLeavesSession ==
    [][(pc = "raised" /\ call.op = "process_query" /\ call.before # <<>>) =>
          sessions'[call.thread].messages = call.before
      ]_vars

\* C39: sessions are isolated: a process_query or handle_suggestion_selection
\* call for one thread_id, in any order with calls for other thread_ids, reads
\* and writes only that thread_id's entry of the session store: every other
\* session is left as it was by every step of the call, and the state the graph
\* run starts from is built from that thread's own entry.
C39_SessionsIsolated ==
    [][/\ \A t \in DOMAIN sessions :
            (t # call'.thread) => (t \in DOMAIN sessions' /\ sessions'[t] = sessions[t])
       /\ (pc = "idle" /\ pc' = "router" /\ call'.thread \in DOMAIN sessions) =>
            LET own == sessions[call'.thread]
            IN  /\ call'.before = own.messages
                /\ Len(state'.messages) \in {Len(own.messages), Len(own.messages) + 1}
                /\ SubSeq(state'.messages, 1, Len(own.messages)) = own.messages
                /\ state'.tool_results = own.tool_results
      ]_vars

\* a call for one thread has returned while the other thread holds a different
\* stored session
C39_Witness ==
    /\ pc = "idle" /\ result.returned
    /\ DOMAIN sessions = Threads
    /\ call.thread = "other"
    /\ call.before # <<>>
    /\ sessions["default"].plan # sessions["other"].plan
    /\ sessions["default"].messages # sessions["other"].messages

====
